---- MODULE Spec2Model ----
(***************************************************************************)
(* Model of vyatta/cpuset.py: the class Cpuset, which keeps a set of CPUs  *)
(* as range text ("0-3,7") and converts it to list text ("0,1,2,3,7") and  *)
(* to a hexadecimal mask, and which adds and removes another Cpuset.       *)
(*                                                                         *)
(* A Python str is modelled as a sequence of one-character strings, so     *)
(* that splitting, slicing, reversing, formatting and parsing are computed *)
(* character by character as the code computes them.  A Python int used as *)
(* a bit mask is unbounded; it is modelled by the set of the positions of  *)
(* its 1 bits, and "mask + (1 << n)" by binary addition with carry.        *)
(* A raised ValueError is modelled by the value ValueError, which is no    *)
(* text any function returns.                                              *)
(***************************************************************************)
EXTENDS Integers, Sequences, FiniteSets

VARIABLES input, cpus, call

vars == <<input, cpus, call>>

----------------------------------------------------------------------------
(* Bounds of the model *)

\* longest hexadecimal mask text a Cpuset is constructed from
MaxMaskLen == 2
\* most comma-separated entries in a range text a Cpuset is constructed from
MaxEntries == 2
\* most numbers in a list text handed to _list_to_range directly
MaxListLen == 3
\* longest mask text when two Cpusets are constructed from masks
MaxPairMaskLen == 1
\* widest range entry lo-hi of a range text: hi - lo
MaxSpan == 8

----------------------------------------------------------------------------
(* Python str and int primitives *)

\* the exception int() raises on text that is no number
ValueError == <<"ValueError">>

DecDigits == <<"0", "1", "2", "3", "4", "5", "6", "7", "8", "9">>

HexDigits == <<"0", "1", "2", "3", "4", "5", "6", "7", "8", "9",
               "a", "b", "c", "d", "e", "f">>

Chars(s) == {s[k] : k \in 1..Len(s)}

DecChars == Chars(DecDigits)

HexChars == Chars(HexDigits)

DigitVal(digits, c) == (CHOOSE k \in 1..Len(digits) : digits[k] = c) - 1

\* str.isdigit(): non-empty and every character a decimal digit
isdigit(s) == s # <<>> /\ \A k \in 1..Len(s) : s[k] \in DecChars

\* int(s) for a decimal token that int() accepts
RECURSIVE int10(_)
int10(s) ==
    IF s = <<>> THEN 0
    ELSE 10 * int10(SubSeq(s, 1, Len(s) - 1)) + DigitVal(DecDigits, s[Len(s)])

HexUpper == <<"0", "1", "2", "3", "4", "5", "6", "7", "8", "9",
              "A", "B", "C", "D", "E", "F">>

\* the characters int(char, 16) accepts
ishex(c) == c \in HexChars \/ c \in Chars(HexUpper)

\* int(char, 16) for one hexadecimal character, either case
int16(c) ==
    IF c \in HexChars THEN DigitVal(HexDigits, c) ELSE DigitVal(HexUpper, c)

\* str(n) of a non-negative int
RECURSIVE str(_)
str(n) ==
    IF n < 10 THEN <<DecDigits[n + 1]>>
    ELSE str(n \div 10) \o <<DecDigits[(n % 10) + 1]>>

\* s[::-1]
Reverse(s) == [k \in 1..Len(s) |-> s[Len(s) + 1 - k]]

\* s.strip(): leading and trailing blanks removed
RECURSIVE strip(_)
strip(s) ==
    IF s = <<>> THEN s
    ELSE IF s[1] = " " THEN strip(Tail(s))
    ELSE IF s[Len(s)] = " " THEN strip(SubSeq(s, 1, Len(s) - 1))
    ELSE s

\* s.split(c): the pieces of s between the occurrences of c; [""] for ""
RECURSIVE split(_, _)
split(s, c) ==
    IF c \notin Chars(s) THEN <<s>>
    ELSE LET k == CHOOSE i \in 1..Len(s) :
                    s[i] = c /\ \A j \in 1..(i - 1) : s[j] # c
         IN  <<SubSeq(s, 1, k - 1)>> \o split(SubSeq(s, k + 1, Len(s)), c)

\* sep.join(pieces)
RECURSIVE join(_, _)
join(pieces, sep) ==
    IF pieces = <<>> THEN <<>>
    ELSE IF Len(pieces) = 1 THEN pieces[1]
    ELSE pieces[1] \o sep \o join(Tail(pieces), sep)

\* an unbounded int as the set of the positions of its 1 bits:
\* mask + (1 << n), the carry rippling upwards through the bits already set
RECURSIVE AddBit(_, _)
AddBit(mask, n) ==
    IF n \in mask THEN AddBit(mask \ {n}, n + 1) ELSE mask \cup {n}

SetMax(S) == CHOOSE x \in S : \A y \in S : y <= x

Nibble(mask, k) ==
    (IF 4 * k \in mask THEN 1 ELSE 0) + (IF 4 * k + 1 \in mask THEN 2 ELSE 0)
    + (IF 4 * k + 2 \in mask THEN 4 ELSE 0) + (IF 4 * k + 3 \in mask THEN 8 ELSE 0)

\* format(mask, 'X') in place of format(mask, 'x'): the digits in upper case
formatx_upper(mask) ==
    IF mask = {} THEN <<"0">>
    ELSE LET top == SetMax(mask) \div 4
         IN  [k \in 1..(top + 1) |-> HexUpper[Nibble(mask, top + 1 - k) + 1]]

\* format(mask, 'x'): lowercase hex, most significant digit first, no leading
\* zero, "0" for zero
formatx(mask) ==
    IF mask = {} THEN <<"0">>
    ELSE LET top == SetMax(mask) \div 4
         IN  [k \in 1..(top + 1) |-> HexDigits[Nibble(mask, top + 1 - k) + 1]]

----------------------------------------------------------------------------
(* class Cpuset *)

\* the locals of _mask_to_range before its loop; bit is not yet bound
\* (it is read only while start >= 0, that is after it has been assigned)
MaskScanInit ==
    [all_cpus |-> <<>>, start |-> -1, last |-> 0, sep |-> <<>>, bit |-> -1]

\* the loop body with "last = bit" left out of the continuation branch, so
\* that a run never grows beyond its first bit
MaskStepStale(st, rev, k) ==
    LET char  == rev[(k \div 4) + 1]
        i     == k % 4
        count == 4 * (k \div 4)
    IN  IF (int16(char) \div (2 ^ i)) % 2 = 1
        THEN LET bit == i + count
             IN  IF st.start >= 0
                 THEN [st EXCEPT !.bit = bit]
                 ELSE [st EXCEPT !.bit = bit, !.start = bit, !.last = bit,
                                 !.all_cpus = @ \o st.sep \o str(bit),
                                 !.sep = <<",">>]
        ELSE [st EXCEPT !.all_cpus = IF st.start >= 0 /\ st.start # st.last
                                     THEN @ \o <<"-">> \o str(st.bit) ELSE @,
                        !.start = -1]

\* the body of the inner loop of _mask_to_range for digit k \div 4, i = k % 4
\* of the reversed mask rev
MaskStep(st, rev, k) ==
    LET char  == rev[(k \div 4) + 1]
        i     == k % 4
        count == 4 * (k \div 4)
    IN  IF (int16(char) \div (2 ^ i)) % 2 = 1
        THEN LET bit == i + count
             IN  IF st.start >= 0
                 THEN [st EXCEPT !.bit = bit,
                                 !.last = IF bit = st.last + 1 THEN bit ELSE @]
                 ELSE [st EXCEPT !.bit = bit, !.start = bit, !.last = bit,
                                 !.all_cpus = @ \o st.sep \o str(bit),
                                 !.sep = <<",">>]
        ELSE [st EXCEPT !.all_cpus = IF st.start >= 0 /\ st.start # st.last
                                     THEN @ \o <<"-">> \o str(st.bit) ELSE @,
                        !.start = -1]

\* the locals after the first n passes of the inner loop
RECURSIVE MaskScan(_, _)
MaskScan(rev, n) ==
    IF n = 0 THEN MaskScanInit ELSE MaskStep(MaskScan(rev, n - 1), rev, n - 1)

\* Cpuset._mask_to_range(mask)
mask_to_range(mask) ==
    IF \E k \in 1..Len(mask) : ~ishex(mask[k]) THEN ValueError
    ELSE LET st == MaskScan(Reverse(mask), 4 * Len(mask))
         IN  IF st.start >= 0 /\ st.start # st.last
             THEN st.all_cpus \o <<"-">> \o str(st.last)
             ELSE st.all_cpus

\* mask = 0; for num in tokens: mask = mask + (1 << int(num))
RECURSIVE SumBits(_)
SumBits(tokens) ==
    IF tokens = <<>> THEN {}
    ELSE AddBit(SumBits(SubSeq(tokens, 1, Len(tokens) - 1)),
                int10(tokens[Len(tokens)]))

\* Cpuset._list_to_range(_list)
list_to_range(_list) ==
    LET tokens == split(_list, ",")
    IN  IF \E k \in 1..Len(tokens) : ~isdigit(tokens[k]) THEN ValueError
        ELSE mask_to_range(formatx(SumBits(tokens)))

\* what one entry val of the range text adds to the list
RangeItems(val) ==
    IF "-" \in Chars(val)
    THEN LET nums == split(val, "-")
             lo   == int10(nums[1])
             hi   == int10(nums[2])
         IN  [k \in 1..(hi + 1 - lo) |-> str(lo + k - 1)]
    ELSE <<val>>

RangeItemsRaise(val) ==
    /\ "-" \in Chars(val)
    /\ LET nums == split(val, "-") IN ~isdigit(nums[1]) \/ ~isdigit(nums[2])

RECURSIVE Flatten(_)
Flatten(ss) == IF ss = <<>> THEN <<>> ELSE ss[1] \o Flatten(Tail(ss))

\* Cpuset._range_to_list(self), self.cpus = text
range_to_list(text) ==
    IF text = <<>> THEN <<>>
    ELSE LET _list == split(text, ",")
         IN  IF \E k \in 1..Len(_list) : RangeItemsRaise(_list[k]) THEN ValueError
             ELSE join(Flatten([k \in 1..Len(_list) |-> RangeItems(_list[k])]), <<",">>)

\* Cpuset._range_to_mask(self), self.cpus = text
range_to_mask(text) ==
    IF text = <<>> THEN <<>>
    ELSE LET _list == range_to_list(text)
         IN  IF _list = ValueError THEN ValueError
             ELSE LET tokens == split(_list, ",")
                  IN  IF \E k \in 1..Len(tokens) : ~isdigit(tokens[k]) THEN ValueError
                      ELSE LET m     == formatx(SumBits(tokens))
                               start == Len(m) % 8
                               mslw  == IF start # 0
                                        THEN SubSeq(m, 1, start) \o <<",">> ELSE <<>>
                           IN  mslw \o join([k \in 1..((Len(m) - start) \div 8) |->
                                                SubSeq(m, start + 8 * k - 7, start + 8 * k)],
                                            <<",">>)

\* add_cpuset storing the merged list as it is, without _list_to_range
add_cpuset_unmerged(self, other) ==
    LET list_a == range_to_list(self)
        list_b == range_to_list(other)
    IN  IF list_a = ValueError \/ list_b = ValueError THEN ValueError
        ELSE LET cpuset_a == split(list_a, ",")
                 cpuset_b == split(list_b, ",")
                 InA(cpu) == \E k \in 1..Len(cpuset_a) : cpuset_a[k] = cpu
                 NewB(cpu) == ~InA(cpu) /\ isdigit(cpu)
             IN  join(SelectSeq(cpuset_a, isdigit) \o SelectSeq(cpuset_b, NewB), <<",">>)

\* the text add_cpuset assigns to self.cpus, or ValueError when it raises
add_cpuset(self, other) ==
    LET list_a == range_to_list(self)
        list_b == range_to_list(other)
    IN  IF list_a = ValueError \/ list_b = ValueError THEN ValueError
        ELSE LET cpuset_a == split(list_a, ",")
                 cpuset_b == split(list_b, ",")
                 InA(cpu) == \E k \in 1..Len(cpuset_a) : cpuset_a[k] = cpu
                 NewB(cpu) == ~InA(cpu) /\ isdigit(cpu)
             IN  list_to_range(join(SelectSeq(cpuset_a, isdigit)
                                    \o SelectSeq(cpuset_b, NewB), <<",">>))

\* remove_cpuset storing the remaining list as it is, without _list_to_range
remove_cpuset_unmerged(self, other) ==
    LET list_a == range_to_list(self)
        list_b == range_to_list(other)
    IN  IF list_a = ValueError \/ list_b = ValueError THEN ValueError
        ELSE LET cpuset_a == split(list_a, ",")
                 cpuset_b == split(list_b, ",")
                 Keep(cpu) == (\A k \in 1..Len(cpuset_b) : cpuset_b[k] # cpu)
                              /\ isdigit(cpu)
             IN  join(SelectSeq(cpuset_a, Keep), <<",">>)

\* the text remove_cpuset assigns to self.cpus, or ValueError when it raises
remove_cpuset(self, other) ==
    LET list_a == range_to_list(self)
        list_b == range_to_list(other)
    IN  IF list_a = ValueError \/ list_b = ValueError THEN ValueError
        ELSE LET cpuset_a == split(list_a, ",")
                 cpuset_b == split(list_b, ",")
                 Keep(cpu) == (\A k \in 1..Len(cpuset_b) : cpuset_b[k] # cpu)
                              /\ isdigit(cpu)
                 cpus_    == join(SelectSeq(cpuset_a, Keep), <<",">>)
             IN  IF cpus_ = <<>> THEN <<>> ELSE list_to_range(cpus_)

\* the text Cpuset(text, mask).cpus, or ValueError when __init__ raises
init_cpuset(text, mask) ==
    IF mask THEN mask_to_range(strip(text)) ELSE strip(text)

----------------------------------------------------------------------------
(* What the texts mean: the reference the code is compared with *)

SetMin(S) == CHOOSE x \in S : \A y \in S : x <= y

\* an entry of range text is a bare number or lo-hi with lo < hi
WellFormedEntry(e) ==
    \/ isdigit(e)
    \/ /\ Len(split(e, "-")) = 2
       /\ isdigit(split(e, "-")[1]) /\ isdigit(split(e, "-")[2])
       /\ int10(split(e, "-")[1]) < int10(split(e, "-")[2])

\* valid range notation: empty, or comma-separated well-formed entries
WellFormed(text) ==
    text = <<>> \/ \A k \in 1..Len(split(text, ",")) : WellFormedEntry(split(text, ",")[k])

\* the CPUs one well-formed entry names
EntrySet(e) ==
    IF isdigit(e) THEN {int10(e)}
    ELSE int10(split(e, "-")[1]) .. int10(split(e, "-")[2])

\* the CPUs a well-formed range text names
CpusOf(text) ==
    IF text = <<>> THEN {}
    ELSE UNION {EntrySet(split(text, ",")[k]) : k \in 1..Len(split(text, ","))}

\* no CPU is named by two entries of the text
RECURSIVE EntriesDisjoint(_)
EntriesDisjoint(es) ==
    \/ es = <<>>
    \/ /\ \A k \in 2..Len(es) : EntrySet(es[1]) \cap EntrySet(es[k]) = {}
       /\ EntriesDisjoint(Tail(es))

\* valid range notation naming each CPU at most once
Valid(text) ==
    WellFormed(text) /\ (text = <<>> \/ EntriesDisjoint(split(text, ",")))

\* the ascending, maximally range-merged range notation of the set S
RECURSIVE Canon(_)
Canon(S) ==
    IF S = {} THEN <<>>
    ELSE LET lo   == SetMin(S)
             hi   == SetMax({h \in S : \A n \in lo..h : n \in S})
             rest == {n \in S : n > hi}
         IN  (IF lo = hi THEN str(lo) ELSE str(lo) \o <<"-">> \o str(hi))
             \o (IF rest = {} THEN <<>> ELSE <<",">> \o Canon(rest))

\* canonical form: what the system itself produces
Canonical(text) == WellFormed(text) /\ text = Canon(CpusOf(text))

\* the bits set in a mask text of hex digits without separators: digit p from
\* the right holds bits 4p .. 4p+3
BitsOf(mask) ==
    {n \in 0..(4 * Len(mask) - 1) :
        (int16(mask[Len(mask) - (n \div 4)]) \div (2 ^ (n % 4))) % 2 = 1}

----------------------------------------------------------------------------
(* The texts the program constructs its Cpusets from *)

\* every text of at most n characters over the characters cs
RECURSIVE Texts(_, _)
Texts(cs, n) ==
    IF n = 0 THEN {<<>>}
    ELSE LET shorter == Texts(cs, n - 1)
         IN  shorter \cup {<<c>> \o t : c \in cs, t \in {u \in shorter : Len(u) = n - 1}}

\* one entry of range text: a bare number, or lo-hi with lo < hi spanning at
\* most MaxSpan numbers beyond lo
Entries(pool) ==
    {str(n) : n \in pool}
    \cup {str(r[1]) \o <<"-">> \o str(r[2]) :
            r \in {q \in pool \X pool : q[1] < q[2] /\ q[2] <= q[1] + MaxSpan}}

\* the comma-separated texts of at most n entries, in any order
RECURSIVE RangeTexts(_, _)
RangeTexts(pool, n) ==
    IF n = 0 THEN {<<>>}
    ELSE LET shorter == RangeTexts(pool, n - 1)
         IN  shorter \cup Entries(pool)
                     \cup {e \o <<",">> \o t : e \in Entries(pool), t \in shorter \ {<<>>}}

\* CPU numbers of the range texts one Cpuset is constructed from: they reach
\* past bit 31, where the mask has a second group of 8 hex digits
OnePool == {0, 3, 7, 31, 32, 39}

\* hex digits of the mask texts that Cpuset is constructed from
OneHex == {"0", "8", "d", "f"}

\* CPU numbers of the range texts two Cpusets are constructed from: numbers
\* of one and of two digits
PairPool == {9, 10, 11}

\* hex digits of the mask texts two Cpusets are constructed from (the empty
\* mask text gives the empty set)
PairHex == {"6", "9", "f"}

\* numbers of the list texts handed to _list_to_range
ListPool == {0, 1, 2, 3, 10}

RECURSIVE ListTexts(_)
ListTexts(n) ==
    IF n = 1 THEN {str(m) : m \in ListPool}
    ELSE ListTexts(n - 1)
         \cup {str(m) \o <<",">> \o t : m \in ListPool, t \in ListTexts(n - 1)}

MaskArgs(cs, n) == {[text |-> t, mask |-> TRUE] : t \in Texts(cs, n)}

RangeArgs(pool, n) == {[text |-> t, mask |-> FALSE] : t \in RangeTexts(pool, n)}

----------------------------------------------------------------------------
(* The program: Cpusets are constructed from the input texts, then read,   *)
(* added and removed.  call records the last call: its name, the objects   *)
(* it was made on, the texts they held before it and what it returned      *)
(* (None for the mutators, ValueError when it raised).                     *)

None == <<"None">>

NoCall ==
    [name |-> "", self |-> "", other |-> "", arg |-> <<>>, mask |-> FALSE,
     pre |-> <<>>, preother |-> <<>>, ret |-> None]

Objs == DOMAIN input

Live == DOMAIN cpus

\* o = Cpuset(text, mask)
New(o) ==
    /\ o \in Objs \ Live
    /\ LET r == init_cpuset(input[o].text, input[o].mask)
       IN  /\ cpus' = IF r = ValueError THEN cpus
                      ELSE [x \in Live \cup {o} |-> IF x = o THEN r ELSE cpus[x]]
           /\ call' = [NoCall EXCEPT !.name = "__init__", !.self = o,
                                     !.arg = input[o].text, !.mask = input[o].mask,
                                     !.ret = IF r = ValueError THEN r ELSE None]
    /\ UNCHANGED input

\* o.range()
Range(o) ==
    /\ o \in Live
    /\ call' = [NoCall EXCEPT !.name = "range", !.self = o, !.pre = cpus[o],
                              !.ret = cpus[o]]
    /\ UNCHANGED <<input, cpus>>

\* o.list()
List(o) ==
    /\ o \in Live
    /\ call' = [NoCall EXCEPT !.name = "list", !.self = o, !.pre = cpus[o],
                              !.ret = range_to_list(cpus[o])]
    /\ UNCHANGED <<input, cpus>>

\* o.mask()
Mask(o) ==
    /\ o \in Live
    /\ call' = [NoCall EXCEPT !.name = "mask", !.self = o, !.pre = cpus[o],
                              !.ret = range_to_mask(cpus[o])]
    /\ UNCHANGED <<input, cpus>>

\* o.add_cpuset(p); p may be o itself
Add(o, p) ==
    /\ o \in Live /\ p \in Live
    /\ LET r == add_cpuset(cpus[o], cpus[p])
       IN  /\ cpus' = IF r = ValueError THEN cpus ELSE [cpus EXCEPT ![o] = r]
           /\ call' = [NoCall EXCEPT !.name = "add_cpuset", !.self = o, !.other = p,
                                     !.pre = cpus[o], !.preother = cpus[p],
                                     !.ret = IF r = ValueError THEN r ELSE None]
    /\ UNCHANGED input

\* o.remove_cpuset(p); p may be o itself
Remove(o, p) ==
    /\ o \in Live /\ p \in Live
    /\ LET r == remove_cpuset(cpus[o], cpus[p])
       IN  /\ cpus' = IF r = ValueError THEN cpus ELSE [cpus EXCEPT ![o] = r]
           /\ call' = [NoCall EXCEPT !.name = "remove_cpuset", !.self = o, !.other = p,
                                     !.pre = cpus[o], !.preother = cpus[p],
                                     !.ret = IF r = ValueError THEN r ELSE None]
    /\ UNCHANGED input

\* Cpuset._list_to_range(l)
ListToRange(l) ==
    /\ call' = [NoCall EXCEPT !.name = "_list_to_range", !.arg = l,
                              !.ret = list_to_range(l)]
    /\ UNCHANGED <<input, cpus>>

Start(args) ==
    /\ input \in args
    /\ cpus = <<>>
    /\ call = NoCall

\* one Cpuset, constructed from a mask text or from a range text, then read,
\* added to itself and removed from itself
Init == Start([{"a"} -> MaskArgs(OneHex, MaxMaskLen) \cup RangeArgs(OnePool, MaxEntries)])

Next ==
    \/ \E o \in Objs : New(o)
    \/ \E o \in Objs : Range(o)
    \/ \E o \in Objs : List(o)
    \/ \E o \in Objs : Mask(o)
    \/ \E o \in Objs, p \in Objs : Add(o, p)
    \/ \E o \in Objs, p \in Objs : Remove(o, p)

Spec == Init /\ [][Next]_vars

\* one Cpuset constructed from any mask text of hex digits, and read
InitNew == Start([{"a"} -> MaskArgs(Chars(HexDigits), MaxMaskLen)])

NextNew ==
    \/ \E o \in Objs : New(o)
    \/ \E o \in Objs : Range(o)

SpecNew == InitNew /\ [][NextNew]_vars

\* two Cpusets, each constructed from a valid range text naming each CPU at
\* most once; then b, or a itself, is added to a and removed from a, in any
\* order and any number of times
InitRange ==
    Start([{"a", "b"} -> {x \in RangeArgs(PairPool, MaxEntries) : Valid(x.text)}])

NextRange ==
    \/ \E o \in Objs : New(o)
    \/ \E p \in Objs : Add("a", p)
    \/ \E p \in Objs : Remove("a", p)

SpecRange == InitRange /\ [][NextRange]_vars

NextPair ==
    \/ \E o \in Objs : New(o)
    \/ \E o \in Objs, p \in Objs : Add(o, p)
    \/ \E o \in Objs, p \in Objs : Remove(o, p)

\* two Cpusets, each constructed from a mask text, then added and removed in
\* any order and with any pairing of the two
InitMask == Start([{"a", "b"} -> MaskArgs(PairHex, MaxPairMaskLen)])

SpecMask == InitMask /\ [][NextPair]_vars

\* the static helper alone, on list texts
InitList == Start({<<>>})

NextList == \E l \in ListTexts(MaxListLen) : ListToRange(l)

SpecList == InitList /\ [][NextList]_vars

----------------------------------------------------------------------------
(* The claims *)

\* what the list text l names: the set of its numbers
NumbersOf(l) == {int10(split(l, ",")[k]) : k \in 1..Len(split(l, ","))}

\* C1: add is set union with a canonical result.  For two Cpusets holding
\* valid range text that names each CPU at most once (either or both may be
\* empty), a.add_cpuset(b) completes without error and leaves a.range() equal
\* to the canonical range notation of (CPUs of a) union (CPUs of b).
C1_AddIsUnion ==
    (call.name = "add_cpuset" /\ Valid(call.pre) /\ Valid(call.preother))
    => /\ call.ret = None
       /\ cpus[call.self] = Canon(CpusOf(call.pre) \cup CpusOf(call.preother))

\* C2: remove is set difference with a canonical result.  For two Cpusets
\* holding valid range text that names each CPU at most once (entries in any
\* order, either may be empty, b may be a itself), a.remove_cpuset(b) leaves
\* a.range() equal to the canonical range notation of (CPUs of a) minus
\* (CPUs of b), which is the empty text exactly when every CPU of a is in b.
C2_RemoveIsDifference ==
    (call.name = "remove_cpuset" /\ Valid(call.pre) /\ Valid(call.preother))
    => /\ call.ret = None
       /\ cpus[call.self] = Canon(CpusOf(call.pre) \ CpusOf(call.preother))
       /\ (cpus[call.self] = <<>>) <=> (CpusOf(call.pre) \subseteq CpusOf(call.preother))
       /\ (call.self = call.other => cpus[call.self] = <<>>)

\* C2 happens: b = "10" was removed from a = "11,9-10", an unsorted text, and
\* a is left as "9,11"
C2_Witness ==
    /\ call.name = "remove_cpuset" /\ call.self = "a" /\ call.other = "b"
    /\ call.pre = <<"1", "1", ",", "9", "-", "1", "0">>
    /\ call.preother = <<"1", "0">>
    /\ cpus["a"] = <<"9", ",", "1", "1">>

\* C3: constructing a Cpuset from a mask decodes exactly the set bits.  For
\* every text of hex digits, Cpuset(mask, mask=True).range() is the ascending
\* list of the maximal runs of set bits, a run of one bit as the bare number
\* and a longer run as lo-hi; expanding it gives exactly the set bits, and a
\* mask with no bit set gives the empty text.
C3_MaskDecodesSetBits ==
    (call.name = "range" /\ input[call.self].mask)
    => /\ call.ret = Canon(BitsOf(input[call.self].text))
       /\ WellFormed(call.ret)
       /\ CpusOf(call.ret) = BitsOf(input[call.self].text)
       /\ (BitsOf(input[call.self].text) = {} => call.ret = <<>>)

\* C3 happens: the mask "f8", whose run of five bits crosses the digit
\* boundary and is still open at the most significant bit, reads back as "3-7"
C3_Witness ==
    /\ call.name = "range"
    /\ input["a"] = [text |-> <<"f", "8">>, mask |-> TRUE]
    /\ call.ret = <<"3", "-", "7">>

\* C4: mask() encodes the set as comma-grouped hex, most significant group
\* first.  For a Cpuset whose range text names each CPU at most once, mask()
\* is the empty text when the set is empty; otherwise its groups, concatenated
\* without the commas, are the lowercase hex digits of the integer with bit n
\* set for each member n, every group after the first has exactly 8 digits,
\* and the first has between 1 and 8 digits.
C4_MaskGroups ==
    (call.name = "mask" /\ Valid(call.pre))
    => IF CpusOf(call.pre) = {} THEN call.ret = <<>>
       ELSE /\ call.ret # ValueError
            /\ LET groups == split(call.ret, ",")
               IN  /\ Flatten(groups) = formatx(CpusOf(call.pre))
                   /\ Len(groups[1]) \in 1..8
                   /\ \A k \in 2..Len(groups) : Len(groups[k]) = 8

\* C5: mask round trip.  For every canonical range text r the system
\* produces, Cpuset(Cpuset(r).mask(), mask=True).range() is r again.
C5_MaskRoundTrip ==
    (call.name = "mask" /\ Canonical(call.pre))
    => /\ call.ret # ValueError
       /\ init_cpuset(call.ret, TRUE) = call.pre

\* C6: add is idempotent on a set with itself.  For every Cpuset a in
\* canonical form (the empty set included), a.add_cpuset(a) completes and
\* leaves a.range() as it was.
C6_AddSelfIdempotent ==
    (call.name = "add_cpuset" /\ call.self = call.other /\ Canonical(call.pre))
    => /\ call.ret = None
       /\ cpus[call.self] = call.pre

\* C7: add followed by remove of the same operand undoes itself.  For
\* Cpusets a and b in canonical form with no CPU in common (either may be
\* empty), a.add_cpuset(b) completes, and the a.remove_cpuset(b) that follows
\* it leaves a.range() equal to a's original text.
C7_AddThenRemoveRestores ==
    [][\A p \in Live \ {"a"} :
        /\ ( /\ Add("a", p)
             /\ Canonical(cpus["a"]) /\ Canonical(cpus[p])
             /\ CpusOf(cpus["a"]) \cap CpusOf(cpus[p]) = {} )
           => call'.ret = None
        /\ ( /\ call.name = "add_cpuset" /\ call.other = p /\ call.ret = None
             /\ Canonical(call.pre) /\ Canonical(call.preother)
             /\ CpusOf(call.pre) \cap CpusOf(call.preother) = {}
             /\ Remove("a", p) )
           => cpus'["a"] = call.pre]_vars

\* C8: the stored form stays canonical.  In every state reached by
\* constructing Cpusets from mask text and then adding and removing them in
\* any order and pairing, each Cpuset's cpus is the empty text or valid range
\* notation whose entries (a number, or lo-hi with lo < hi) are strictly
\* ascending and neither overlap nor touch.
C8_StoredFormCanonical ==
    \A o \in Live : Canonical(cpus[o])

\* C8 happens: b = "1-2" was removed from a = "0-3", leaving a = "0,3"
C8_Witness ==
    /\ call.name = "remove_cpuset" /\ call.self = "a" /\ call.other = "b"
    /\ call.pre = <<"0", "-", "3">>
    /\ cpus["a"] = <<"0", ",", "3">>
    /\ cpus["b"] = <<"1", "-", "2">>

C10_ListToRangeOfSet ==
    call.name = "_list_to_range" => call.ret = Canon(NumbersOf(call.arg))

====
